---- MODULE Spec2Model ----
(***************************************************************************)
(* react-foam: the store cell of createStore (state reference + listener   *)
(* Set), its setState / subscribe / unsubscribe / destroy / getState       *)
(* operations with synchronous, re-entrant listener fan-out, and the       *)
(* useStore accessor of both drafts of the source.                         *)
(***************************************************************************)
EXTENDS Integers, Sequences, FiniteSets, Bags, TLC

\* ------------------------------------------------------------------ bounds
NObjs == 3        \* object identities the callers can pass as state values
NDirect == 2      \* callbacks registered directly with subscribe
NAcc == 1         \* useStore call sites (accessor instances)
MaxUnsubs == 2    \* unsubscribe functions the callers keep hold of
MaxReent == 1     \* store operations listeners issue inside one top-level call

\* --------------------------------------------------------- state values
\* A state value is an object: an identity plus (immutable by convention)
\* contents.  Distinct identities may hold equal contents.
Keys == {"a", "b"}
Contents == << [a |-> 1, b |-> 2], [a |-> 9], [a |-> 9, b |-> 2] >>
Objs == 1..NObjs
Content(o) == Contents[((o - 1) % Len(Contents)) + 1]
HasKey(o, k) == k \in DOMAIN Content(o)

\* Selectors passed to useStore: none (whole state), s => s.a, s => s.b.
Selectors == {"none", "a", "b"}
\* These and s => s.b.x, which throws a TypeError when s.b is undefined (the
\* test's state => state.value!.nonExistent over { value: null }).
ReadSelectors == Selectors \cup {"deep"}
NoValue == [t |-> "none", v |-> 0]
\* The outcome of a selector call that throws.
Thrown == [t |-> "throw", v |-> 0]
\* currentSelector ? currentSelector(currentState) : currentState
Select(sel, o) ==
  IF sel = "none" THEN [t |-> "obj", v |-> o]
  ELSE IF sel = "deep"
  THEN IF HasKey(o, "b") THEN [t |-> "undef", v |-> 0] ELSE Thrown
  ELSE IF HasKey(o, sel) THEN [t |-> "val", v |-> Content(o)[sel]]
  ELSE [t |-> "undef", v |-> 0]
\* Variant: a try/catch around the selector call swallows the exception.
FailedNever(v) == FALSE
\* No caller of a selector (getSnapshot, the effect draft's render and
\* listener, computed, memo) wraps the call: its exception escapes.
Failed(v) == v = Thrown

\* ------------------------------------------------------------ listeners
Direct == 1..NDirect
AccIds == 1..NAcc
\* The closure a useStore call site subscribes.  A subscription made while
\* the closure of an earlier subscription of the same site is still in the
\* Set passes a second closure, AccListener(a) + NAcc.
AccListener(a) == NDirect + a
IsAccListener(l) == l > NDirect
AccOf(l) == ((l - NDirect - 1) % NAcc) + 1
ListenerIds == 1..(NDirect + 2 * NAcc)

\* JS Set: insertion-ordered, no duplicates.
SetOf(ls) == {ls[i] : i \in 1..Len(ls)}
PosOf(ls, l) == CHOOSE i \in 1..Len(ls) : ls[i] = l
\* Variant: add leaves the Set as it is.
SetAddNothing(ls, l) == ls
\* Variant: a list, every add appends.
SetAddAgain(ls, l) == Append(ls, l)
\* listeners.add(listener)
SetAdd(ls, l) == IF l \in SetOf(ls) THEN ls ELSE Append(ls, l)
\* Variant: delete removes the newest entry instead of the one asked for.
SetDeleteLast(ls, l) ==
  IF l \in SetOf(ls) THEN SubSeq(ls, 1, Len(ls) - 1) ELSE ls
\* Variant: delete leaves the Set as it is.
SetDeleteNothing(ls, l) == ls
\* listeners.delete(listener)
SetDelete(ls, l) ==
  IF l \in SetOf(ls)
  THEN LET p == PosOf(ls, l) IN SubSeq(ls, 1, p - 1) \o SubSeq(ls, p + 1, Len(ls))
  ELSE ls
\* Variant: clear leaves the Set as it is.
SetClearNothing(ls) == ls
\* listeners.clear()
SetClear(ls) == << >>
NewClosure(a, ls) ==
  IF AccListener(a) \in SetOf(ls) THEN AccListener(a) + NAcc ELSE AccListener(a)

\* --------------------------------------------------- setState arguments
\* A direct value, or an updater: s => s, () => { throw }, or s => v.
DirectValues == [kind : {"value"}, f : {"-"}, v : Objs]
AccInputs == DirectValues \cup [kind : {"fn"}, f : {"same"}, v : {1}]
\* A newly allocated object whose contents equal those of an object of Objs
\* (the test's `setState({ count: 0 })` over a state `{ count: 0 }`).
FreshCopy == NObjs + 1
SiteInputs == AccInputs \cup [kind : {"value"}, f : {"-"}, v : {FreshCopy}]
FlatInputs == DirectValues \cup [kind : {"fn"}, f : {"same", "throws"}, v : {1}]
Updaters ==
  DirectValues
    \cup [kind : {"fn"}, f : {"same", "throws"}, v : {1}]
    \cup [kind : {"fn"}, f : {"const"}, v : Objs]

\* Variant: an exception of the updater is swallowed.
ThrowsSwallowed(u) == FALSE
\* typeof updater === "function" ? updater(state) : updater
Throws(u) == u.kind = "fn" /\ u.f = "throws"
Candidate(u, cur) == IF u.kind = "fn" /\ u.f = "same" THEN cur ELSE u.v

\* Values that are functions (T extends object admits them): s => s, a
\* function that returns object 1, and a function that returns itself.
FnSame == NObjs + 2
FnConst == NObjs + 3
FnSelf == NObjs + 4
Fns == {FnSame, FnConst, FnSelf}
\* Variant: no value is taken for a function.
TypeofNever(x) == FALSE
\* typeof updater === "function" (line 37)
TypeofFunction(x) == x \in Fns
\* What setState does with the value x it is passed (lines 36-39): a
\* function is called with the state, anything else is the candidate.
ArgOf(x) ==
  IF TypeofFunction(x)
  THEN IF x = FnSame THEN [kind |-> "fn", f |-> "same", v |-> 1]
       ELSE IF x = FnConst THEN [kind |-> "fn", f |-> "const", v |-> 1]
       ELSE [kind |-> "fn", f |-> "const", v |-> x]
  ELSE [kind |-> "value", f |-> "-", v |-> x]

\* Variant: the identity check is missing.
AcceptsAlways(cand, cur) == TRUE
\* if (nextState !== state)
Accepts(cand, cur) == cand # cur
\* Variant: a write issued while a forEach loop is running is dropped.
AdmitsAtTopOnly(notifying) == ~notifying
\* setState holds no re-entrancy guard: the comparison of line 41 is its only
\* condition, whether or not a forEach loop is running.
Admits(notifying) == TRUE
\* Variant: every listener is passed the candidate of the write that started
\* the loop.
ListenerArgCandidate(cand, cur) == cand
\* listener(state): the variable is read at each invocation (line 43).
ListenerArg(cand, cur) == cur
\* Variant: forEach catches the exception and goes on to the next entry.
UnwoundListenerOnly(stk) == SubSeq(stk, 1, Len(stk) - 1)
\* An exception leaving a listener body also leaves the forEach loop that
\* invoked it and the setState running that loop (lines 41-44, no try).
Unwound(stk) == SubSeq(stk, 1, Len(stk) - 2)

\* Variant: the candidate is shallow-merged into the previous state.
MergedContent(cur, cand) ==
  [k \in (DOMAIN Content(cur)) \cup (DOMAIN Content(cand)) |->
     IF k \in DOMAIN Content(cand) THEN Content(cand)[k] ELSE Content(cur)[k]]
MergedState(cur, cand) ==
  LET same == {o \in Objs : /\ o # cur
                             /\ DOMAIN Content(o) = DOMAIN MergedContent(cur, cand)
                             /\ \A k \in DOMAIN Content(o) :
                                   Content(o)[k] = MergedContent(cur, cand)[k]}
  IN IF same # {} THEN CHOOSE o \in same : TRUE ELSE cand
\* Variant: the assignment is missing.
KeepState(cur, cand) == cur
\* state = nextState
NextStateOf(cur, cand) == cand

\* Some key of the previous state is absent from the candidate.
DropsKey(cur, cand) == \E k \in Keys : HasKey(cur, k) /\ ~HasKey(cand, k)

\* Variant: the loop stops one entry early.
HasNextButLast(ls, idx) == idx + 1 < Len(ls)
\* Set.prototype.forEach: is there an entry after the idx already visited?
HasNext(ls, idx) == idx < Len(ls)

\* ------------------------------------------------------------------ memo
\* The selectors wrapped by memo: s => ({ a: s.a }), s => ({ a: s.a, b: s.b })
\* and s => ({ v: s.a === 9 ? s.b : s.a }).  Each returns a new object.
MemoSelectors == {"a", "ab", "branch"}
\* These and s => ({ x: s.b.x }), which throws when s.b is undefined.
MemoReadSelectors == MemoSelectors \cup {"deep"}
\* These, s => s (the state as a whole) and s => 0 (a constant): neither
\* reads a key of the state.
MemoAllSelectors == MemoReadSelectors \cup {"whole", "const"}
\* The top-level keys a selector reads on state o, in the order it reads them.
Reads(sel, o) ==
  IF sel \in {"whole", "const"} THEN << >>
  ELSE IF sel = "deep" THEN << "b" >>
  ELSE IF sel = "a" THEN << "a" >>
  ELSE IF sel = "ab" THEN << "a", "b" >>
  ELSE IF Select("a", o) = [t |-> "val", v |-> 9] THEN << "a", "b" >>
  ELSE << "a" >>
\* The selector throws on state o.
ApplyFails(sel, o) == sel = "deep" /\ Failed(Select("deep", o))
\* The contents of the object a selector returns for state o.
Apply(sel, o) ==
  IF sel = "whole" THEN << Select("none", o) >>
  ELSE IF sel = "const" THEN << [t |-> "val", v |-> 0] >>
  ELSE IF sel = "deep" THEN << Select("deep", o) >>
  ELSE IF sel = "a" THEN << Select("a", o) >>
  ELSE IF sel = "ab" THEN << Select("a", o), Select("b", o) >>
  ELSE IF Select("a", o) = [t |-> "val", v |-> 9] THEN << Select("b", o) >>
  ELSE << Select("a", o) >>
\* lastResult = null; a result is an object: an identity and its contents.
NoResult == [id |-> 0, val |-> << >>]
\* The object one invocation of the selector returns: never the cached one.
NewResult(sel, o, cached) == [id |-> IF cached.id = 1 THEN 2 ELSE 1,
                              val |-> Apply(sel, o)]
\* Variant: the get trap records only the first key read.
TrackedFirstOnly(reads) == {reads[1]}
\* The proxy's get trap adds every key read to `tracked` (lines 101-110).
TrackedBy(reads) == {reads[i] : i \in 1..Len(reads)}
\* Variant: a recomputation records the keys it read.
Retracked(old, reads) == {reads[i] : i \in 1..Len(reads)}
\* Lines 126-129 assign lastResult and lastState, never trackedKeys.
KeptTracked(old, reads) == old
\* Variant: only the key a is compared.
HasChangedOneKey(keys, last, o) ==
  "a" \in keys /\ Select("a", last) # Select("a", o)
\* Variant: every call recomputes.
HasChangedAlways(keys, last, o) == TRUE
\* Variant: the states are compared as a whole.
HasChangedWhole(keys, last, o) == last # o
\* trackedKeys.some((key) => lastState[key] !== state[key])
HasChanged(keys, last, o) == \E k \in keys : Select(k, last) # Select(k, o)
\* Variant: the call is marked as run before the selector is invoked.
AfterFailureMarked(m, o) == [m EXCEPT !.hasRun = TRUE, !.lastState = o]
\* The cache after a call in which the selector threw: lines 109 and 127
\* throw before any of the assignments of lines 109-112 / 127-128.
AfterFailure(m, o) == m
\* Variant: computed applies the selector to one fixed state.
ComputedOfFirst(sel, cur) == Select(sel, 1)
\* () => selector(store.getState())
ComputedValue(sel, cur) == Select(sel, cur)

VARIABLES
  state,      \* let state: T
  listeners,  \* const listeners = new Set<Listener<T>>(), in insertion order
  stack,      \* call stack: running forEach loops and listener bodies
  exc,        \* an exception is propagating out of a nested call
  budget,     \* re-entrant calls left in the current top-level call
  unsubs,     \* the unsubscribe closures returned by subscribe and kept
  draft,      \* which draft of useStore the build holds
  acc,        \* the useStore call sites: phase, selectorRef (sel),
              \* hasSelector of the subscribing render (hasSel), value of
              \* the last render / stateRef (ref), value last returned (ret),
              \* re-render signalled (pending), subscribed closure (lis);
              \* history: selector passed by the latest evaluation (passed),
              \* an evaluation passed another selector than the one before
              \* (switched)
  cancelled,  \* history: listeners unsubscribed and not subscribed since
  flushed,    \* history: listeners removed by destroy, not subscribed since
  destroyed,  \* history: destroy ran and nothing was subscribed since
  everDestroyed, \* history: destroy ran at least once
  revived,    \* history: listeners subscribed after a destroy, since the
              \* last destroy
  lastCand,   \* history: candidate of the most recent accepted write
  lastOp,     \* history: the most recent store operation and its effect
  top,        \* history: the current / most recent top-level operation
  calls,      \* history: listener invocations of the current top-level call
  memo,       \* one memoized selector: the wrapped selector and the cache
              \* (hasRun, lastState, lastResult, trackedKeys)
  mlog,       \* history: the most recent call of the memoized selector
  peer,       \* a second store, made by another createStore call: its state,
              \* its listener Set and, as history, its most recent operation
  client,     \* which kind of caller drives the store in this behaviour
  snap        \* one getSnapshot closure: the selector instance it reads
              \* (sel; "memo" is the memoized selector) and, as history, the
              \* values of its two most recent calls and the states they read

storeVars == << state, listeners, stack, exc, budget, unsubs >>
accVars == << draft, acc >>
lifeVars == << everDestroyed, revived >>
histVars == << cancelled, flushed, destroyed, lifeVars, lastCand, lastOp, top,
              calls >>
memoVars == << memo, mlog >>
\* What the operations of the first store and of its call sites never touch.
restVars == << memoVars, peer, client, snap >>
vars == << storeVars, accVars, histVars, memoVars, peer, client, snap >>

\* ------------------------------------------------------------- helpers
Idle == stack = << >>
TopFrame == stack[Len(stack)]
InFanOut == ~Idle /\ TopFrame.kind = "fan"
InListener == ~Idle /\ TopFrame.kind = "lis"
\* Code that can issue a store call: the top-level caller, or a listener body.
CanCall == ~exc /\ (Idle \/ (InListener /\ budget > 0))

FanFrame(cand, same) ==
  [kind |-> "fan", idx |-> 0, l |-> 0, cand |-> cand, same |-> same]
LisFrame(l) ==
  [kind |-> "lis", idx |-> 0, l |-> l, cand |-> 0, same |-> FALSE]

\* History record of one store call.  same: the candidate was the current
\* state; threw: the call ended in an exception; repeat: this unsubscribe
\* closure had been called before / destroy with nothing subscribed since the
\* last destroy; lsChanged, stChanged: the call changed the listener set,
\* the state; dropped: a key of the old state is absent from the candidate;
\* afterWrite: the call directly follows an accepted top-level write;
\* ret: the value returned by getState; site: the useStore call site a
\* render evaluated; val: the value a computed function returned.
NoOp ==
  [op |-> "createStore", nested |-> FALSE, same |-> FALSE, threw |-> FALSE,
   repeat |-> FALSE, lsChanged |-> FALSE, stChanged |-> FALSE,
   dropped |-> FALSE, afterWrite |-> FALSE, ret |-> 0, site |-> 0,
   val |-> NoValue]
OpRec(op, f) ==
  [k \in DOMAIN NoOp |->
     IF k = "op" THEN op
     ELSE IF k = "nested" THEN ~Idle
     ELSE IF k \in DOMAIN f THEN f[k] ELSE NoOp[k]]

\* arg: what the caller passed; cand: the candidate; same: the candidate is
\* the current state; begin: the listener set when the call began;
\* accChanged: the call sites whose record a notification of this write
\* changed; reent: a listener called the store during this call.
TopRec(op, arg, cand, accepted, threw, same) ==
  [op |-> op, arg |-> arg, cand |-> cand, accepted |-> accepted,
   threw |-> threw, same |-> same, begin |-> SetOf(listeners),
   accChanged |-> {}, reent |-> FALSE]

\* Bookkeeping every call shares: a top-level call starts a new history
\* record, a nested call marks the running one re-entrant.
Enter(rec) ==
  IF Idle
  THEN /\ top' = rec
       /\ calls' = << >>
       /\ budget' = MaxReent
  ELSE /\ top' = [top EXCEPT !.reent = TRUE]
       /\ calls' = calls
       /\ budget' = budget - 1

\* Variant: a running loop does not notice a deletion.
AfterDeleteKeep(stk, p) == stk
\* Running forEach loops keep their position when the Set changes under them.
AfterDelete(stk, p) ==
  [i \in 1..Len(stk) |->
     IF stk[i].kind = "fan" /\ stk[i].idx >= p
     THEN [stk[i] EXCEPT !.idx = @ - 1] ELSE stk[i]]
AfterClear(stk) ==
  [i \in 1..Len(stk) |->
     IF stk[i].kind = "fan" THEN [stk[i] EXCEPT !.idx = 0] ELSE stk[i]]

Drafts == {"sync", "effect"}
Unmounted ==
  [phase |-> "unmounted", sel |-> "none", hasSel |-> FALSE, ref |-> NoValue,
   ret |-> NoValue, pending |-> FALSE, lis |-> 0, passed |-> "none",
   switched |-> FALSE]

\* memo(selector), lines 94-97
Unprimed(sel) ==
  [selector |-> sel, hasRun |-> FALSE, lastState |-> 0, lastResult |-> NoResult,
   trackedKeys |-> {}]

\* The callback subscribed to the second store.
PeerListener == NDirect + 2 * NAcc + 1
\* The second store right after its createStore call (lines 30-31).
\* History: op, the most recent operation on it; accepted, that operation
\* was an accepted write; notified, the listeners that write invoked and
\* what they were passed; afterWrite, that operation was a write and the
\* most recent top-level call on the first store was an accepted write when
\* it ran; missed, the listeners of the first store that write had not yet
\* invoked by then.
\* A getSnapshot closure that has not been called.
Unread(sel) ==
  [sel |-> sel, n |-> 0, last |-> << >>, prev |-> << >>, at |-> 0,
   prevAt |-> 0]
NewPeer(o) ==
  [state |-> o, listeners |-> << >>, op |-> "createStore", accepted |-> FALSE,
   notified |-> << >>, afterWrite |-> FALSE, missed |-> {}]

\* createStore(initialState)
InitStoreOf(S) ==
  /\ state \in S
  /\ listeners = << >>
  /\ stack = << >>
  /\ exc = FALSE
  /\ budget = MaxReent
  /\ unsubs = EmptyBag
  /\ acc = [a \in AccIds |-> Unmounted]
  /\ cancelled = {}
  /\ flushed = {}
  /\ destroyed = FALSE
  /\ everDestroyed = FALSE
  /\ revived = {}
  /\ lastCand = state
  /\ lastOp = NoOp
  /\ top = [op |-> "createStore", arg |-> "-", cand |-> state,
            accepted |-> FALSE, threw |-> FALSE, same |-> FALSE,
            begin |-> {}, accChanged |-> {}, reent |-> FALSE]
  /\ calls = << >>
  /\ mlog = [n |-> 0, arg |-> 0, invoked |-> FALSE, ret |-> NoResult,
             reads |-> << >>, before |-> Unprimed("a"), threw |-> FALSE]

InitStore == InitStoreOf(Objs)

Init ==
  /\ InitStore /\ draft = "sync" /\ memo = Unprimed("a")
  /\ peer = NewPeer(1) /\ client = "calls" /\ snap = Unread("none")
InitAcc ==
  /\ InitStore /\ draft \in Drafts /\ memo = Unprimed("a")
  /\ peer = NewPeer(1) /\ client = "sites" /\ snap = Unread("none")
InitMemo ==
  /\ InitStore /\ draft = "sync" /\ peer = NewPeer(1) /\ client = "memo" /\ snap = Unread("none")
  /\ \E sel \in MemoSelectors : memo = Unprimed(sel)
InitMemoAll ==
  /\ InitStore /\ draft = "sync" /\ peer = NewPeer(1) /\ client = "memo" /\ snap = Unread("none")
  /\ \E sel \in MemoAllSelectors : memo = Unprimed(sel)
\* One store driven by one of three kinds of caller: direct calls of its
\* operations and of computed, useStore call sites, or calls of a memoized
\* selector.
InitOps ==
  /\ InitStore /\ peer = NewPeer(1) /\ snap = Unread("none")
  /\ \/ client = "calls" /\ draft = "sync" /\ memo = Unprimed("a")
     \/ client = "sites" /\ draft \in Drafts /\ memo = Unprimed("a")
     \/ /\ client = "memo" /\ draft = "sync"
        /\ \E sel \in MemoReadSelectors : memo = Unprimed(sel)
\* createStore(initialState) with any value, a function included.
\* One store read through one getSnapshot closure whose selector is absent,
\* s => s.a, s => s.b or one memoized instance of an allocating selector.
InitSnap ==
  /\ InitStore /\ draft = "sync" /\ peer = NewPeer(1) /\ client = "snapshot"
  /\ \/ /\ snap \in {Unread(sel) : sel \in Selectors}
        /\ memo = Unprimed("a")
     \/ /\ snap = Unread("memo")
        /\ \E sel \in MemoSelectors : memo = Unprimed(sel)
InitCall ==
  /\ InitStoreOf(Objs \cup Fns) /\ draft = "sync" /\ memo = Unprimed("a")
  /\ peer = NewPeer(1) /\ client = "calls" /\ snap = Unread("none")
\* Two stores, each made by its own createStore call.
InitTwo ==
  /\ InitStore /\ draft = "sync" /\ memo = Unprimed("a")
  /\ peer \in {NewPeer(o) : o \in Objs} /\ client = "stores" /\ snap = Unread("none")

\* ------------------------------------------------------------- getState
GetState ==
  /\ CanCall
  /\ Enter(TopRec("getState", "-", 0, FALSE, FALSE, FALSE))
  /\ lastOp' = OpRec("getState",
                     [ret |-> state,
                      afterWrite |-> Idle /\ top.op = "setState"
                                          /\ top.accepted])
  /\ UNCHANGED lifeVars
  /\ UNCHANGED restVars
  /\ UNCHANGED << state, listeners, stack, exc, unsubs, accVars,
                  cancelled, flushed, destroyed, lastCand >>

\* ------------------------------------------------------------- setState
SetState(u) ==
  /\ CanCall
  /\ IF Throws(u)
     THEN \* the updater throws before the comparison and the assignment
          /\ Enter(TopRec("setState", u.f, 0, FALSE, TRUE, FALSE))
          /\ exc' = ~Idle
          /\ lastOp' = OpRec("setState", [threw |-> TRUE])
          /\ UNCHANGED << state, listeners, stack, lastCand >>
     ELSE LET cand == Candidate(u, state) IN
          IF Accepts(cand, state) /\ Admits(~Idle)
          THEN /\ Enter(TopRec("setState", u.f, cand, TRUE, FALSE,
                               cand = state))
               /\ state' = NextStateOf(state, cand)
               /\ stack' = Append(stack, FanFrame(cand, cand = state))
               /\ lastCand' = cand
               /\ lastOp' = OpRec("setState",
                                  [same |-> cand = state,
                                   stChanged |-> state' # state,
                                   dropped |-> DropsKey(state, cand)])
               /\ UNCHANGED << listeners, exc >>
          ELSE /\ Enter(TopRec("setState", u.f, cand, FALSE, FALSE,
                               cand = state))
               /\ lastOp' = OpRec("setState", [same |-> cand = state])
               /\ UNCHANGED << state, listeners, stack, exc, lastCand >>
  /\ UNCHANGED lifeVars
  /\ UNCHANGED restVars
  /\ UNCHANGED << unsubs, accVars, cancelled, flushed, destroyed >>

\* selectorRef.current = selector (lines 60 and 220).
\* Variant: the selector of the first evaluation is kept.
FirstSelector(old, new) == old
NewestSelector(old, new) == new
\* getSnapshot: the current selector applied to getState().
Snapshot(r) == Select(r.sel, state)
\* Effect draft, lines 230-232: the value the listener computes from the
\* state it is passed, with the hasSelector of the render that subscribed it.
ListenerValue(r, arg) ==
  IF r.hasSel /\ r.sel # "none" THEN Select(r.sel, arg) ELSE Select("none", arg)
\* Variants: the listener signals on every / on no notification.
SignalsAlways(r, arg) == TRUE
SignalsNever(r, arg) == FALSE
\* Whether the notified listener signals its caller to re-render.
\* sync draft: useSyncExternalStore compares getSnapshot() with the value of
\* the last render.  effect draft: line 235.
Signals(r, arg) ==
  IF draft = "sync" THEN Snapshot(r) # r.ref ELSE ListenerValue(r, arg) # r.ref
\* The listener useStore registers, run on a notification with `arg`.
AccessorNotified(r, arg) ==
  IF draft = "sync"
  THEN [r EXCEPT !.pending = @ \/ Signals(r, arg)]
  ELSE IF Signals(r, arg)
       THEN [r EXCEPT !.ref = ListenerValue(r, arg), !.pending = TRUE]
       ELSE r

\* listeners.forEach((listener) => listener(state)): one visit.  A direct
\* listener either returns without calling the store (enter = FALSE) or its
\* body goes on to call the store (enter = TRUE); the listener of a useStore
\* call site never calls the store.
Notify(enter) ==
  /\ ~exc
  /\ InFanOut
  /\ HasNext(listeners, TopFrame.idx)
  /\ LET f == TopFrame
         l == listeners[f.idx + 1]
         visited == [stack EXCEPT ![Len(stack)].idx = @ + 1]
         arg == ListenerArg(f.cand, state)
         \* effect draft, line 231: the selector throws inside the listener
         threw == /\ IsAccListener(l)
                  /\ draft = "effect"
                  /\ Failed(ListenerValue(acc[AccOf(l)], arg))
         left == SubSeq(stack, 1, Len(stack) - 1)
     IN /\ calls' = Append(calls, [l |-> l, arg |-> arg, d |-> Len(stack),
                                   cand |-> f.cand, same |-> f.same,
                                   stale |-> l \in cancelled,
                                   flushed |-> l \in flushed,
                                   signal |-> IsAccListener(l) /\ ~threw
                                      /\ Signals(acc[AccOf(l)], arg),
                                   want |-> IsAccListener(l)
                                      /\ Select(acc[AccOf(l)].passed, state)
                                            # acc[AccOf(l)].ref])
        /\ enter => ~IsAccListener(l) /\ budget > 0
        /\ acc' = IF IsAccListener(l) /\ ~threw
                  THEN [acc EXCEPT ![AccOf(l)] = AccessorNotified(@, arg)]
                  ELSE acc
        /\ top' = IF threw
                  THEN (IF left = << >> THEN [top EXCEPT !.threw = TRUE]
                        ELSE top)
                  ELSE IF acc' # acc
                  THEN [top EXCEPT !.accChanged = @ \cup {AccOf(l)}]
                  ELSE top
        \* an exception leaves forEach and the setState running it
        /\ stack' = IF threw THEN left
                    ELSE IF enter THEN Append(visited, LisFrame(l))
                    ELSE visited
        /\ exc' = (threw /\ left # << >>)
  /\ UNCHANGED lifeVars
  /\ UNCHANGED restVars
  /\ UNCHANGED << state, listeners, budget, unsubs, draft, cancelled,
                  flushed, destroyed, lastCand, lastOp >>

\* The listener body returns to the forEach loop.
ListenerReturn ==
  /\ ~exc
  /\ InListener
  /\ stack' = SubSeq(stack, 1, Len(stack) - 1)
  /\ UNCHANGED restVars
  /\ UNCHANGED << state, listeners, exc, budget, unsubs, accVars, histVars >>

\* forEach has no entry left: setState returns.
FanReturn ==
  /\ ~exc
  /\ InFanOut
  /\ ~HasNext(listeners, TopFrame.idx)
  /\ stack' = SubSeq(stack, 1, Len(stack) - 1)
  /\ UNCHANGED restVars
  /\ UNCHANGED << state, listeners, exc, budget, unsubs, accVars, histVars >>

\* The body of a direct listener throws.
ListenerThrow ==
  /\ ~exc
  /\ InListener
  /\ exc' = TRUE
  /\ UNCHANGED restVars
  /\ UNCHANGED << state, listeners, stack, budget, unsubs, accVars, histVars >>

\* A listener in whose body an exception is raised catches it ...
ListenerCatch ==
  /\ exc
  /\ InListener
  /\ exc' = FALSE
  /\ UNCHANGED restVars
  /\ UNCHANGED << state, listeners, stack, budget, unsubs, accVars, histVars >>

\* ... or lets it escape: forEach and the setState running it are abandoned.
ListenerPropagate ==
  /\ exc
  /\ InListener
  /\ stack' = Unwound(stack)
  /\ exc' = (stack' # << >>)
  /\ top' = IF stack' = << >> THEN [top EXCEPT !.threw = TRUE] ELSE top
  /\ UNCHANGED lifeVars
  /\ UNCHANGED restVars
  /\ UNCHANGED << state, listeners, budget, unsubs, accVars, cancelled,
                  flushed, destroyed, lastCand, lastOp, calls >>

\* ------------------------------------------------------------ subscribe
\* The closure returned by subscribe(l).  called: it has been called;
\* live: it has not been called and no destroy() ran since it was returned.
\* The closures the callers keep form a bag: two closures with the same
\* fields behave alike.
Closure(l) == [l |-> l, called |-> FALSE, live |-> TRUE]
AfterCall(c) == [c EXCEPT !.called = TRUE, !.live = FALSE]
AfterDestroy(c) == [c EXCEPT !.live = FALSE]
FlushAll(B) ==
  [c \in {AfterDestroy(b) : b \in BagToSet(B)} |->
     CopiesIn(c, B) + CopiesIn([c EXCEPT !.live = TRUE], B)]
\* keep: whether the caller keeps the returned unsubscribe closure.
Subscribe(l, keep) ==
  /\ CanCall
  /\ keep => BagCardinality(unsubs) < MaxUnsubs
  /\ Enter(TopRec("subscribe", "-", 0, FALSE, FALSE, FALSE))
  /\ listeners' = SetAdd(listeners, l)
  /\ unsubs' = IF keep THEN unsubs (+) SetToBag({Closure(l)}) ELSE unsubs
  /\ cancelled' = cancelled \ {l}
  /\ flushed' = flushed \ {l}
  /\ destroyed' = FALSE
  /\ lastOp' = OpRec("subscribe", [lsChanged |-> listeners' # listeners])
  /\ everDestroyed' = everDestroyed
  /\ revived' = IF everDestroyed THEN revived \cup {l} ELSE revived
  /\ UNCHANGED restVars
  /\ UNCHANGED << state, stack, exc, accVars, lastCand >>

\* The closure returned by subscribe: () => listeners.delete(listener)
Unsubscribe(c) ==
  /\ CanCall
  /\ BagIn(c, unsubs)
  /\ Enter(TopRec("unsubscribe", "-", 0, FALSE, FALSE, FALSE))
  /\ LET l == c.l IN
     /\ listeners' = SetDelete(listeners, l)
     /\ stack' = IF l \in SetOf(listeners)
                 THEN AfterDelete(stack, PosOf(listeners, l)) ELSE stack
     /\ cancelled' = cancelled \cup {l}
     /\ unsubs' = (unsubs (-) SetToBag({c})) (+) SetToBag({AfterCall(c)})
     /\ lastOp' = OpRec("unsubscribe",
                        [repeat |-> c.called,
                         lsChanged |-> listeners' # listeners])
  /\ UNCHANGED lifeVars
  /\ UNCHANGED restVars
  /\ UNCHANGED << state, exc, accVars, flushed, destroyed, lastCand >>

\* -------------------------------------------------------------- destroy
Destroy ==
  /\ CanCall
  /\ Enter(TopRec("destroy", "-", 0, FALSE, FALSE, FALSE))
  /\ listeners' = SetClear(listeners)
  /\ stack' = AfterClear(stack)
  /\ flushed' = flushed \cup SetOf(listeners)
  /\ unsubs' = FlushAll(unsubs)
  /\ destroyed' = TRUE
  /\ lastOp' = OpRec("destroy",
                     [repeat |-> destroyed,
                      lsChanged |-> listeners' # listeners])
  /\ everDestroyed' = TRUE
  /\ revived' = {}
  /\ UNCHANGED restVars
  /\ UNCHANGED << state, exc, accVars, cancelled, lastCand >>

\* ------------------------------------------------------------- useStore
\* First evaluation of a call site (render of the mounting component).
Mount(a, sel) ==
  /\ Idle
  /\ acc[a].phase = "unmounted"
  /\ LET threw == Failed(Select(sel, state)) IN
     /\ Enter(TopRec("render", sel, 0, FALSE, threw, FALSE))
     \* lines 65 / 216: the selector throws while the component renders
     \* for the first time, nothing of the call site is kept
     /\ acc' = IF threw THEN acc
               ELSE [acc EXCEPT ![a] =
                       [phase |-> "rendered", sel |-> sel,
                        hasSel |-> draft = "effect" /\ sel # "none",
                        ref |-> Select(sel, state), ret |-> Select(sel, state),
                        pending |-> FALSE, lis |-> 0, passed |-> sel,
                        switched |-> FALSE]]
     /\ lastOp' = OpRec("render", [site |-> a, threw |-> threw])
  /\ UNCHANGED lifeVars
  /\ UNCHANGED restVars
  /\ UNCHANGED << state, listeners, stack, exc, unsubs, draft, cancelled,
                  flushed, destroyed, lastCand >>

\* The effect of the first render runs: the call site subscribes.  The sync
\* draft (useSyncExternalStore) also re-reads the snapshot at this point.
Commit(a) ==
  /\ Idle
  /\ acc[a].phase = "rendered"
  /\ Enter(TopRec("subscribe", "-", 0, FALSE, FALSE, FALSE))
  /\ LET l == NewClosure(a, listeners) IN
     /\ listeners' = SetAdd(listeners, l)
     /\ acc' = [acc EXCEPT ![a].phase = "subscribed",
                           ![a].lis = l,
                           ![a].pending =
                              @ \/ (draft = "sync" /\ Snapshot(acc[a]) # acc[a].ref)]
     /\ cancelled' = cancelled \ {l}
     /\ flushed' = flushed \ {l}
     /\ revived' = IF everDestroyed THEN revived \cup {l} ELSE revived
  /\ destroyed' = FALSE
  /\ everDestroyed' = everDestroyed
  /\ lastOp' = OpRec("subscribe", [lsChanged |-> listeners' # listeners])
  /\ UNCHANGED restVars
  /\ UNCHANGED << state, stack, exc, unsubs, draft, lastCand >>

\* A later evaluation of a subscribed call site, with the selector the caller
\* passes this time.  In the effect draft a change of hasSelector re-runs the
\* effect: the cleanup unsubscribes the old closure and a new one is
\* subscribed.
Rerender(a, sel) ==
  /\ Idle
  /\ acc[a].phase = "subscribed"
  /\ LET now == NewestSelector(acc[a].sel, sel)
         \* lines 65 / 246-248: the effect draft applies the selector only
         \* when this evaluation was passed one
         value == IF draft = "sync" \/ sel # "none"
                  THEN Select(now, state) ELSE Select("none", state)
         threw == Failed(value)
         resub == ~threw /\ draft = "effect" /\ (sel # "none") # acc[a].hasSel
         cleaned == SetDelete(listeners, acc[a].lis)
         l == NewClosure(a, cleaned)
     IN
     /\ Enter(TopRec("render", sel, 0, FALSE, threw, FALSE))
     /\ acc' = IF threw
               THEN \* the render is abandoned: line 60 has run before
                    \* getSnapshot throws, line 220 comes after the throwing
                    \* call of line 216
                    IF draft = "sync" THEN [acc EXCEPT ![a].sel = now] ELSE acc
               ELSE [acc EXCEPT ![a].sel = now,
                                ![a].hasSel = draft = "effect" /\ sel # "none",
                                ![a].ref = value,
                                ![a].ret = value,
                                ![a].pending = FALSE,
                                ![a].lis = IF resub THEN l ELSE @,
                                ![a].passed = sel,
                                ![a].switched = @ \/ sel # acc[a].passed]
     /\ listeners' = IF resub THEN SetAdd(cleaned, l) ELSE listeners
     /\ cancelled' = IF resub THEN cancelled \ {l} ELSE cancelled
     /\ flushed' = IF resub THEN flushed \ {l} ELSE flushed
     /\ revived' = IF resub /\ everDestroyed THEN revived \cup {l} ELSE revived
     /\ destroyed' = IF resub THEN FALSE ELSE destroyed
     /\ lastOp' = OpRec("render", [site |-> a, threw |-> threw,
                                   lsChanged |-> listeners' # listeners])
  /\ everDestroyed' = everDestroyed
  /\ UNCHANGED restVars
  /\ UNCHANGED << state, stack, exc, unsubs, draft, lastCand >>

\* The scope of the call site ends: the effect cleanup unsubscribes.
Unmount(a) ==
  /\ Idle
  /\ acc[a].phase # "unmounted"
  /\ Enter(TopRec("unsubscribe", "-", 0, FALSE, FALSE, FALSE))
  /\ listeners' = IF acc[a].phase = "subscribed"
                  THEN SetDelete(listeners, acc[a].lis) ELSE listeners
  /\ cancelled' = IF acc[a].phase = "subscribed"
                  THEN cancelled \cup {acc[a].lis} ELSE cancelled
  /\ acc' = [acc EXCEPT ![a] = Unmounted]
  /\ lastOp' = OpRec("unsubscribe", [lsChanged |-> listeners' # listeners])
  /\ UNCHANGED lifeVars
  /\ UNCHANGED restVars
  /\ UNCHANGED << state, stack, exc, unsubs, draft, flushed, destroyed,
                  lastCand >>

\* ---------------------------------------------------------------- memo
\* One call of the memoized selector with state o (lines 99-130).
\* mlog.n: 1 for the first call, 2 for a later one.
Memoized(o) ==
  /\ Idle
  /\ IF memo.hasRun /\ ~HasChanged(memo.trackedKeys, memo.lastState, o)
     THEN /\ memo' = memo
          /\ mlog' = [n |-> 2, arg |-> o, invoked |-> FALSE,
                      ret |-> memo.lastResult, reads |-> << >>,
                      before |-> memo, threw |-> FALSE]
     ELSE IF ApplyFails(memo.selector, o)
     THEN /\ memo' = AfterFailure(memo, o)
          /\ mlog' = [n |-> IF memo.hasRun THEN 2 ELSE 1, arg |-> o,
                      invoked |-> TRUE, ret |-> NoResult,
                      reads |-> Reads(memo.selector, o),
                      before |-> memo, threw |-> TRUE]
     ELSE IF ~memo.hasRun
     THEN LET result == NewResult(memo.selector, o, memo.lastResult) IN
          /\ memo' = [memo EXCEPT !.lastResult = result,
                                  !.trackedKeys = TrackedBy(Reads(memo.selector, o)),
                                  !.lastState = o,
                                  !.hasRun = TRUE]
          /\ mlog' = [n |-> 1, arg |-> o, invoked |-> TRUE, ret |-> result,
                      reads |-> Reads(memo.selector, o), before |-> memo,
                      threw |-> FALSE]
     ELSE LET result == NewResult(memo.selector, o, memo.lastResult) IN
          /\ memo' = [memo EXCEPT !.lastResult = result,
                                  !.lastState = o,
                                  !.trackedKeys =
                                     KeptTracked(@, Reads(memo.selector, o))]
          /\ mlog' = [n |-> 2, arg |-> o, invoked |-> TRUE, ret |-> result,
                      reads |-> Reads(memo.selector, o), before |-> memo,
                      threw |-> FALSE]
  /\ UNCHANGED << storeVars, accVars, histVars, peer, client >>
\* A call of the memoized selector by the top-level caller.
MemoCall(o) == Memoized(o) /\ UNCHANGED snap

\* ---------------------------------------------------------- getSnapshot
\* The history of the closure after a call that returned value.
Read(r, value) ==
  [r EXCEPT !.n = IF @ = 0 THEN 1 ELSE 2, !.prev = r.last, !.last = value,
            !.prevAt = r.at, !.at = state]
\* One call of getSnapshot (lines 62-66) by useSyncExternalStore: the
\* current selector applied to getState(), or the state itself.
GetSnapshot ==
  /\ Idle
  /\ IF snap.sel = "memo"
     THEN /\ Memoized(state)
          /\ snap' = Read(snap, << mlog'.ret >>)
     ELSE /\ snap' = Read(snap, << Select(snap.sel, state) >>)
          /\ UNCHANGED << storeVars, accVars, histVars, memoVars, peer,
                          client >>

\* ------------------------------------------------------------ computed
\* One call of the function computed(store, selector) returned.
Computed(sel) ==
  /\ CanCall
  /\ LET threw == Failed(ComputedValue(sel, state)) IN
     /\ Enter(TopRec("computed", sel, 0, FALSE, threw, FALSE))
     /\ lastOp' = OpRec("computed",
                        [val |-> IF threw THEN NoValue
                                 ELSE ComputedValue(sel, state),
                         threw |-> threw,
                         afterWrite |-> Idle /\ top.op = "setState"
                                             /\ top.accepted])
     /\ exc' = (threw /\ ~Idle)
  /\ UNCHANGED lifeVars
  /\ UNCHANGED restVars
  /\ UNCHANGED << state, listeners, stack, unsubs, accVars,
                  cancelled, flushed, destroyed, lastCand >>

\* ------------------------------------------------------ a second store
\* Line 43 of the second store: `listeners` is the Set its own createStore
\* call made (line 31), not the Set of another store.
\* Variant: one Set shared by every store.
NotifiedShared(own, foreign) == own \o foreign
NotifiedBy(own, foreign) == own
\* The listeners of the first store the write in `top` has not invoked.
Missed ==
  IF top.op = "setState" /\ top.accepted
  THEN top.begin \ {calls[i].l : i \in 1..Len(calls)} ELSE {}
\* An operation on the second store, issued by the top-level caller.
PeerOp(op, st, ls, accepted, notified) ==
  /\ Idle
  /\ peer' = [state |-> st, listeners |-> ls, op |-> op,
              accepted |-> accepted, notified |-> notified,
              afterWrite |-> op = "setState" /\ top.op = "setState"
                                             /\ top.accepted,
              missed |-> IF op = "setState" THEN Missed ELSE {}]
  /\ UNCHANGED << storeVars, accVars, histVars, memoVars, client, snap >>
\* setState of the second store (lines 35-45); its listeners are plain
\* recording callbacks, so the whole forEach loop is one step.
PeerSetState(o) ==
  LET accepted == Accepts(o, peer.state)
      invoked == NotifiedBy(peer.listeners, listeners)
  IN PeerOp("setState",
            IF accepted THEN NextStateOf(peer.state, o) ELSE peer.state,
            peer.listeners, accepted,
            IF accepted
            THEN [i \in 1..Len(invoked) |-> [l |-> invoked[i], arg |-> o]]
            ELSE << >>)
PeerSubscribe ==
  PeerOp("subscribe", peer.state, SetAdd(peer.listeners, PeerListener),
         FALSE, << >>)
PeerUnsubscribe ==
  PeerOp("unsubscribe", peer.state, SetDelete(peer.listeners, PeerListener),
         FALSE, << >>)
PeerDestroy ==
  PeerOp("destroy", peer.state, SetClear(peer.listeners), FALSE, << >>)

\* ------------------------------------------------------- specifications
\* Spec: the store with direct listeners that may call back into the store
\* from inside their notification.
Next ==
  \/ GetState
  \/ \E u \in Updaters : SetState(u)
  \/ \E enter \in BOOLEAN : Notify(enter)
  \/ ListenerReturn
  \/ FanReturn
  \/ ListenerThrow
  \/ ListenerCatch
  \/ ListenerPropagate
  \/ \E l \in Direct, keep \in BOOLEAN : Subscribe(l, keep)
  \/ \E c \in BagToSet(unsubs) : Unsubscribe(c)
  \/ Destroy

Spec == Init /\ [][Next]_vars

\* SpecNest: the store with direct listeners whose bodies may write to the
\* store, subscribe or unsubscribe a listener, call destroy, or throw; every
\* unsubscribe closure is kept.
NextNest ==
  \/ \E u \in DirectValues : SetState(u)
  \/ \E enter \in BOOLEAN : Notify(enter)
  \/ ListenerReturn
  \/ FanReturn
  \/ ListenerThrow
  \/ ListenerCatch
  \/ ListenerPropagate
  \/ \E l \in Direct : Subscribe(l, TRUE)
  \/ \E c \in BagToSet(unsubs) : Unsubscribe(c)
  \/ Destroy

SpecNest == Init /\ [][NextNest]_vars

\* SpecCall: the store with values that are functions, as initial state and
\* as argument of setState; listeners are plain recording callbacks.
NextCall ==
  \/ \E x \in Objs \cup Fns : (Idle /\ SetState(ArgOf(x)))
  \/ Notify(FALSE)
  \/ FanReturn
  \/ \E l \in Direct : (Idle /\ Subscribe(l, FALSE))
  \/ (Idle /\ GetState)

SpecCall == InitCall /\ [][NextCall]_vars

\* SpecFlat: the same store, every call issued by the top-level caller
\* (listeners are plain recording callbacks).
NextFlat ==
  \/ (Idle /\ GetState)
  \/ \E u \in FlatInputs : (Idle /\ SetState(u))
  \/ Notify(FALSE)
  \/ FanReturn
  \/ \E l \in Direct, keep \in BOOLEAN : (Idle /\ Subscribe(l, keep))
  \/ \E c \in BagToSet(unsubs) : (Idle /\ Unsubscribe(c))
  \/ (Idle /\ Destroy)
  \/ \E sel \in Selectors : (Idle /\ Computed(sel))

SpecFlat == Init /\ [][NextFlat]_vars

\* SpecAcc: the store with useStore call sites of either draft next to one
\* direct listener whose unsubscribe closure is not kept.  The call sites
\* stay mounted and every evaluation passes the selector of the one before.
NextAcc ==
  \/ \E u \in AccInputs : (Idle /\ SetState(u))
  \/ Notify(FALSE)
  \/ FanReturn
  \/ (Idle /\ Subscribe(1, FALSE))
  \/ (Idle /\ Destroy)
  \/ \E a \in AccIds, sel \in Selectors : Mount(a, sel)
  \/ \E a \in AccIds : Commit(a)
  \/ \E a \in AccIds : Rerender(a, acc[a].passed)

SpecAcc == InitAcc /\ [][NextAcc]_vars

\* SpecSites: useStore call sites on a store that is only written to; every
\* evaluation may pass another selector, and a write may pass a newly
\* allocated copy of an object.
NextSites ==
  \/ \E u \in SiteInputs : (Idle /\ SetState(u))
  \/ Notify(FALSE)
  \/ FanReturn
  \/ \E a \in AccIds, sel \in Selectors : Mount(a, sel)
  \/ \E a \in AccIds : Commit(a)
  \/ \E a \in AccIds, sel \in Selectors : Rerender(a, sel)
  \/ \E a \in AccIds : Unmount(a)

SpecSites == InitAcc /\ [][NextSites]_vars

\* SpecTwo: two stores side by side.  The first has one direct listener and
\* whole-state useStore call sites (shipped draft) that are evaluated once;
\* every call comes from the top-level caller.
NextTwo ==
  \/ \E u \in AccInputs : (Idle /\ SetState(u))
  \/ Notify(FALSE)
  \/ FanReturn
  \/ (Idle /\ Subscribe(1, FALSE))
  \/ \E a \in AccIds : Mount(a, "none")
  \/ \E a \in AccIds : Commit(a)
  \/ \E o \in Objs : PeerSetState(o)
  \/ PeerSubscribe
  \/ PeerUnsubscribe
  \/ PeerDestroy

SpecTwo == InitTwo /\ [][NextTwo]_vars

\* SpecMemo: one memoized selector called with arbitrary states.
NextMemo == \E o \in Objs : MemoCall(o)

SpecMemo == InitMemo /\ [][NextMemo]_vars

\* SpecMemoAll: one memoized selector, which may throw or read no key, called
\* with arbitrary states, newly allocated copies included.
NextMemoAll == \E o \in Objs \cup {FreshCopy} : MemoCall(o)

SpecMemoAll == InitMemoAll /\ [][NextMemoAll]_vars

\* SpecSnap: top-level writes to a store and calls of one getSnapshot
\* closure over it.
NextSnap ==
  \/ \E u \in AccInputs : (Idle /\ SetState(u))
  \/ FanReturn
  \/ GetSnapshot

SpecSnap == InitSnap /\ [][NextSnap]_vars

\* SpecOps: every operation of the module, selectors that can throw
\* included; each behaviour has one kind of caller.  The direct caller
\* subscribes one callback and keeps its unsubscribe closures; the call
\* sites are evaluated without a selector or with the throwing one.
NextOps ==
  \/ (client = "calls" /\ Idle /\ GetState)
  \/ \E u \in FlatInputs : (client = "calls" /\ Idle /\ SetState(u))
  \/ \E u \in SiteInputs : (client = "sites" /\ Idle /\ SetState(u))
  \/ Notify(FALSE)
  \/ FanReturn
  \/ (client = "calls" /\ Idle /\ Subscribe(1, TRUE))
  \/ \E c \in BagToSet(unsubs) : (client = "calls" /\ Idle /\ Unsubscribe(c))
  \/ (client = "calls" /\ Idle /\ Destroy)
  \/ \E sel \in ReadSelectors : (client = "calls" /\ Idle /\ Computed(sel))
  \/ \E a \in AccIds, sel \in {"none", "deep"} :
       (client = "sites" /\ Mount(a, sel))
  \/ \E a \in AccIds : (client = "sites" /\ Commit(a))
  \/ \E a \in AccIds, sel \in {"none", "deep"} :
       (client = "sites" /\ Rerender(a, sel))
  \/ \E a \in AccIds : (client = "sites" /\ Unmount(a))
  \/ \E o \in Objs : (client = "memo" /\ MemoCall(o))

SpecOps == InitOps /\ [][NextOps]_vars

\* ---------------------------------------------------------------- claims
\* The most recent top-level call was a setState that has returned.
Returned == Idle /\ top.op = "setState"
\* Invocations of listener l made by the forEach loop of the top-level write.
VisitsOf(l) == {i \in 1..Len(calls) : calls[i].l = l /\ calls[i].d = 1}
\* Every listener of the set S was invoked exactly once by the top-level
\* write, each time with that write's candidate, and nobody else was.
EachOnceWithCandidate(S) ==
  /\ \A l \in S : Cardinality(VisitsOf(l)) = 1
  /\ \A i \in 1..Len(calls) :
       calls[i].d = 1 => calls[i].l \in S /\ calls[i].arg = top.cand

\* C1: a setState whose candidate is reference-identical to the current
\* state invokes no listener, leaves the state reference and the listener
\* set as they were, and changes nothing a useStore call site observes.
C1_SameReferenceSuppressed ==
  /\ \A i \in 1..Len(calls) : ~calls[i].same
  /\ (Returned /\ top.same) =>
       /\ ~top.accepted
       /\ calls = << >>
       /\ state = top.cand
       /\ SetOf(listeners) = top.begin
       /\ top.accChanged = {}
C1_Witness ==
  /\ Returned /\ top.same /\ top.arg = "same"
  /\ 1 \in SetOf(listeners)
  /\ \E a \in AccIds : acc[a].phase = "subscribed" /\ acc[a].sel = "none"

\* C2: with n distinct passive listeners subscribed, one accepted setState
\* invokes each of them exactly once with the new state, all before it
\* returns.
C2_FanOutOncePerListener ==
  (Returned /\ top.accepted /\ ~top.reent /\ ~top.threw) =>
    /\ Len(calls) = Cardinality(top.begin)
    /\ EachOnceWithCandidate(top.begin)
    /\ \A i \in 1..Len(calls) : calls[i].arg = state
C2_Witness ==
  /\ Returned /\ top.accepted /\ ~top.reent
  /\ Cardinality(top.begin) = NDirect
  /\ Len(calls) = NDirect

\* C3 (as claimed): for every accepted write and whatever the listeners do
\* inside their notification, each listener registered when the write began
\* is invoked exactly once with that write's value before setState returns.
C3_Claimed ==
  (Returned /\ top.accepted /\ ~top.threw) =>
    \A l \in top.begin :
      /\ Cardinality(VisitsOf(l)) = 1
      /\ \A i \in VisitsOf(l) : calls[i].arg = top.cand

\* C4: an accepted setState replaces the state by the candidate: getState()
\* is the candidate itself and no key the candidate lacks survives.
C4_ReplaceNotMerge ==
  (Returned /\ top.accepted /\ ~top.reent) =>
    /\ state = top.cand
    /\ \A k \in Keys : HasKey(state, k) <=> HasKey(top.cand, k)
    /\ \A k \in DOMAIN Content(state) : Content(state)[k] = Content(top.cand)[k]
C4_Witness ==
  /\ Returned /\ top.accepted /\ lastOp.op = "setState" /\ lastOp.dropped
  /\ ~HasKey(state, "b")
  /\ Content(state) = [a |-> 9]

\* C5: when the updater throws, the exception reaches the caller of
\* setState, the state reference and the listener set are those of before
\* the call, and no listener was invoked.
C5_UpdaterFailureAtomic ==
  (Returned /\ top.arg = "throws") =>
    /\ top.threw
    /\ ~top.accepted
    /\ calls = << >>
    /\ state = lastCand
    /\ SetOf(listeners) = top.begin
    /\ (lastOp.op = "setState" => ~lastOp.stChanged /\ ~lastOp.lsChanged)
C5_Witness ==
  /\ Returned /\ top.arg = "throws" /\ top.threw
  /\ Len(listeners) = NDirect

\* C6: getState() is the initial value right after createStore and from then
\* on the candidate of the most recent accepted write; reading it changes
\* neither the state nor the listener set.
C6_GetStateTracksLastWrite ==
  /\ state = lastCand
  /\ lastOp.op = "createStore" => state = top.cand
  /\ lastOp.op = "getState" =>
       /\ lastOp.ret = lastCand
       /\ lastOp.ret = state
       /\ SetOf(listeners) = top.begin
C6_Witness ==
  /\ lastOp.op = "getState"
  /\ lastOp.afterWrite
  /\ lastOp.ret = lastCand
  /\ listeners # << >>

\* C7: once the function returned by subscribe(l) has been called, no later
\* accepted write invokes l (until l is subscribed again), and every
\* listener still registered is invoked exactly once per accepted write.
C7_UnsubscribeStopsNotifications ==
  /\ \A i \in 1..Len(calls) : ~calls[i].stale
  /\ cancelled \cap SetOf(listeners) = {}
  /\ (Returned /\ top.accepted /\ ~top.reent) =>
       /\ \A l \in cancelled : VisitsOf(l) = {}
       /\ \A l \in SetOf(listeners) : Cardinality(VisitsOf(l)) = 1
C7_Witness ==
  /\ Returned /\ top.accepted
  /\ cancelled # {}
  /\ calls # << >>
  /\ \E c \in BagToSet(unsubs) : c.called

\* C8 (as claimed): the second and every later call of one unsubscribe
\* function leaves the listener set unchanged, also when the same callback
\* was subscribed again in between.
C8_Claimed ==
  (lastOp.op = "unsubscribe" /\ lastOp.repeat) => ~lastOp.lsChanged

\* C9 (as claimed): a callback subscribed twice and unsubscribed through one
\* of the two returned functions stays registered through the other one.
C9_Claimed ==
  \A c \in BagToSet(unsubs) : c.live => c.l \in SetOf(listeners)

\* C10 (as claimed): a call site that was mounted when destroy() ran keeps
\* the value it observed before destroy().  Stated for the shipped draft, a
\* call site with no re-render pending and an evaluation that passes the
\* selector it passed before.
C10_Claimed ==
  [][\A a \in AccIds :
       (/\ draft = "sync"
        /\ AccListener(a) \in flushed
        /\ acc[a].phase = "subscribed"
        /\ ~acc[a].pending
        /\ acc'[a].phase = "subscribed"
        /\ acc'[a].sel = acc[a].sel) => acc'[a].ret = acc[a].ret]_vars

\* C10 (amended): after destroy() an accepted setState still replaces the
\* state, no listener removed by destroy() is invoked again unless it is
\* subscribed again, a mounted call site is not signalled and keeps its
\* value until its caller evaluates it again, and a destroy() that follows
\* a destroy() changes nothing.
C10_DestroyFlushesListeners ==
  /\ \A i \in 1..Len(calls) : ~calls[i].flushed
  /\ flushed \cap SetOf(listeners) = {}
  /\ (Returned /\ top.accepted) =>
       /\ state = top.cand
       /\ \A l \in flushed : VisitsOf(l) = {}
       /\ \A a \in AccIds :
            AccListener(a) \in flushed => a \notin top.accChanged
  /\ (lastOp.op = "destroy" /\ lastOp.repeat) =>
       ~lastOp.lsChanged /\ ~lastOp.threw
C10_Witness ==
  /\ Returned /\ top.accepted
  /\ 1 \in flushed
  /\ \E a \in AccIds :
       /\ AccListener(a) \in flushed
       /\ acc[a].phase = "subscribed"
       /\ acc[a].ret # Select(acc[a].sel, state)

\* C11: destroy() is not terminal: a listener subscribed after a destroy()
\* is registered until its unsubscribe function is called, is invoked
\* exactly once with the candidate by every later accepted write while it is
\* registered, and is neither registered nor invoked once unsubscribed.
C11_SubscribeAfterDestroy ==
  /\ revived # {} => everDestroyed
  /\ \A l \in revived : (l \in cancelled) <=> (l \notin SetOf(listeners))
  /\ (Returned /\ top.accepted /\ ~top.reent) =>
       \A l \in revived :
         IF l \in cancelled
         THEN VisitsOf(l) = {}
         ELSE /\ Cardinality(VisitsOf(l)) = 1
              /\ \A i \in VisitsOf(l) : calls[i].arg = top.cand
C11_Witness ==
  /\ Returned /\ top.accepted
  /\ \E l \in revived : l \notin cancelled /\ VisitsOf(l) # {}
  /\ \E l \in revived : l \in cancelled

\* Notifications of the closures of call site a made by the top-level write.
AccVisits(a) ==
  {i \in 1..Len(calls) : IsAccListener(calls[i].l) /\ AccOf(calls[i].l) = a}
\* Call site a was subscribed, its closure in the Set, when the write began.
Registered(a) == acc[a].phase = "subscribed" /\ acc[a].lis \in top.begin

C14_WholeStateAccessor ==
  draft = "sync" =>
    /\ (Idle /\ lastOp.op = "render" /\ acc[lastOp.site].passed = "none") =>
         acc[lastOp.site].ret = [t |-> "obj", v |-> state]
    /\ (Returned /\ top.accepted) =>
         \A a \in AccIds : (Registered(a) /\ acc[a].passed = "none") =>
           /\ Cardinality(AccVisits(a)) = 1
           /\ \A i \in AccVisits(a) : calls[i].arg = state
           /\ acc[a].pending
C14_Witness ==
  /\ draft = "sync"
  /\ Returned /\ top.accepted
  /\ \E a \in AccIds :
       /\ Registered(a) /\ acc[a].passed = "none"
       /\ acc[a].pending
       /\ acc[a].ret # [t |-> "obj", v |-> state]
       /\ \E i \in AccVisits(a) : calls[i].signal

AccClosures(a) == {AccListener(a), AccListener(a) + NAcc}
\* C16: a call site has at most one closure in the listener set, and only
\* while it is subscribed; once its scope has ended it has none, and no
\* later write invokes its closure or signals it.
C16_SubscriptionLifecycle ==
  /\ \A a \in AccIds :
       /\ Cardinality(SetOf(listeners) \cap AccClosures(a)) <= 1
       /\ SetOf(listeners) \cap AccClosures(a) \subseteq {acc[a].lis}
       /\ acc[a].phase # "subscribed" =>
            /\ SetOf(listeners) \cap AccClosures(a) = {}
            /\ AccVisits(a) = {} \/ ~Returned
            /\ a \notin top.accChanged \/ ~Returned
  /\ \A i \in 1..Len(calls) : IsAccListener(calls[i].l) => ~calls[i].stale
C16_Witness ==
  /\ Returned /\ top.accepted
  /\ \E a \in AccIds :
       /\ acc[a].phase = "unmounted"
       /\ AccListener(a) \in cancelled
       /\ AccVisits(a) = {}

\* The tracked keys of the cache hold in state o what they hold in the
\* cached last state.
SameTracked(m, o) ==
  \A k \in m.trackedKeys : Select(k, m.lastState) = Select(k, o)

\* C17: a call of a primed memoized selector with a state that agrees with
\* the cached last state on every tracked key returns the cached result
\* itself without invoking the selector and leaves the cache as it was; a
\* call with a state that differs on a tracked key invokes the selector on
\* that state, returns its new result and caches that state and result.
C17_MemoFieldTracking ==
  mlog.n = 2 =>
    IF SameTracked(mlog.before, mlog.arg)
    THEN /\ ~mlog.invoked
         /\ mlog.ret = mlog.before.lastResult
         /\ memo = mlog.before
    ELSE /\ mlog.invoked
         /\ mlog.ret.val = Apply(memo.selector, mlog.arg)
         /\ mlog.ret.id # mlog.before.lastResult.id
         /\ memo.lastState = mlog.arg
         /\ memo.lastResult = mlog.ret
C17_Witness ==
  /\ mlog.n = 2
  /\ ~mlog.invoked
  /\ mlog.arg # mlog.before.lastState
  /\ mlog.ret = memo.lastResult

\* C18: the first call invokes the selector, returns what it produces for
\* the input state, and records as tracked keys exactly the keys it read.
C18_MemoFirstCall ==
  mlog.n = 1 =>
    /\ mlog.invoked
    /\ mlog.ret.val = Apply(memo.selector, mlog.arg)
    /\ memo.trackedKeys = {mlog.reads[i] : i \in 1..Len(mlog.reads)}
    /\ memo.hasRun
    /\ memo.lastState = mlog.arg
    /\ memo.lastResult = mlog.ret
C18_Witness ==
  /\ mlog.n = 1
  /\ Len(mlog.reads) = 2
  /\ Cardinality(memo.trackedKeys) = 2

\* C19: once the memoized selector is primed no call changes the tracked
\* keys, whatever keys a recomputation reads.
C19_TrackedKeysFrozen ==
  [][memo.hasRun => memo'.trackedKeys = memo.trackedKeys]_vars
\* A hit returns a result the selector would not produce for the input: the
\* key the recomputation read beyond the tracked ones changed.
C19_Witness ==
  /\ mlog.n = 2
  /\ ~mlog.invoked
  /\ mlog.ret.val # Apply(memo.selector, mlog.arg)
  /\ {Reads(memo.selector, memo.lastState)[i] :
        i \in 1..Len(Reads(memo.selector, memo.lastState))} # memo.trackedKeys

\* C20: a call of a computed function returns the selector applied to the
\* state the store holds at that call, changes neither the state nor the
\* listener set and invokes no listener.
C20_ComputedPullOnly ==
  lastOp.op = "computed" =>
    /\ lastOp.val = Select(top.arg, state)
    /\ state = lastCand
    /\ SetOf(listeners) = top.begin
    /\ ~lastOp.lsChanged /\ ~lastOp.stChanged /\ ~lastOp.threw
    /\ calls = << >>
    /\ Idle
C20_Witness ==
  /\ lastOp.op = "computed"
  /\ lastOp.afterWrite
  /\ top.arg # "none"
  /\ lastOp.val = Select(top.arg, lastCand)
  /\ listeners # << >>

\* Call site a, evaluated without a selector, observes an object whose
\* contents equal those of the current state.
ObservesEqualContents(a) ==
  /\ acc[a].phase = "subscribed"
  /\ acc[a].passed = "none"
  /\ acc[a].ref.t = "obj"
  /\ Content(acc[a].ref.v) = Content(state)
\* C21 (as claimed): a whole-state call site is not signalled by the
\* notification of a write whose value has the contents of the state it
\* observes, and its next evaluation returns the reference it held.
C21_Claimed ==
  [][\A a \in AccIds :
       (ObservesEqualContents(a) /\ ~acc[a].pending) =>
         /\ ~acc'[a].pending
         /\ (acc'[a].phase = "subscribed" /\ acc'[a].passed = "none")
              => acc'[a].ret = acc[a].ret]_vars

\* C22: two stores are independent.  A step of one store leaves the state
\* and the listener Set of the other as they were, invokes none of its
\* listeners and signals none of its call sites; the listeners a write
\* invokes are listeners of the store written to.
C22_StoresIndependent ==
  [][/\ << storeVars, acc, calls >>' # << storeVars, acc, calls >>
          => peer' = peer
     /\ peer' # peer =>
          /\ UNCHANGED << state, listeners, stack, acc, calls >>
          /\ \A i \in 1..Len(peer'.notified) :
                /\ peer'.notified[i].l \in SetOf(peer.listeners)
                /\ peer'.notified[i].arg = peer'.state]_vars
C22_Witness ==
  /\ peer.op = "setState" /\ peer.accepted /\ peer.notified # << >>
  /\ 1 \in SetOf(listeners)
  /\ \E a \in AccIds : acc[a].phase = "subscribed" /\ ~acc[a].pending
  /\ state # peer.state

\* C26: when the top-level caller writes one store and then the other, every
\* listener invocation of the first write has happened by the time the
\* second write is applied; nothing is left queued when setState returns.
C26_NoDeferralAcrossStores ==
  /\ peer.op = "setState" => peer.missed = {}
  /\ (Returned /\ top.accepted) => Missed = {}
C26_Witness ==
  /\ peer.op = "setState" /\ peer.accepted /\ peer.afterWrite
  /\ peer.notified # << >>
  /\ Returned /\ top.accepted /\ Len(calls) >= 2

\* C23: the stored state reference changes only in a step that is an
\* accepted setState, and then to that write's candidate; subscribe,
\* unsubscribe, destroy, getState, useStore evaluations, computed reads and
\* calls of a memoized selector leave it as it was.
C23_StateWrittenOnlyBySetState ==
  [][/\ state' # state =>
          /\ lastOp'.op = "setState" /\ lastOp'.stChanged /\ ~lastOp'.threw
          /\ top'.op = "setState" /\ top'.accepted
          /\ state' = top'.cand
          /\ mlog' = mlog
     /\ (lastOp' # lastOp /\ lastOp'.op # "setState") => state' = state
     /\ mlog' # mlog => state' = state]_vars
C23_Witness ==
  /\ client = "calls"
  /\ lastOp.op = "destroy" /\ lastOp.lsChanged
  /\ \E c \in BagToSet(unsubs) : c.called
  /\ top.op = "destroy"
  /\ state = lastCand /\ state # 1

\* The step is a read through a selector: a useStore evaluation or a call
\* of a computed function.
ReadStep ==
  /\ << top, lastOp >>' # << top, lastOp >>
  /\ top'.op \in {"render", "computed"}
\* C24: a selector that throws during a useStore evaluation, a computed
\* read or a call of its memoized wrapper makes that read throw to its
\* caller, no value is returned, and the state and the listener Set stay
\* as they were.
C24_SelectorFailureContained ==
  [][/\ ReadStep =>
          /\ lastOp'.threw <=> Select(top'.arg, state) = Thrown
          /\ top'.threw = lastOp'.threw
          /\ lastOp'.val # Thrown
          /\ \A a \in AccIds : acc'[a].ret # Thrown
          /\ lastOp'.threw =>
                /\ state' = state /\ listeners' = listeners
                /\ stack' = stack
                /\ \A a \in AccIds : /\ acc'[a].ret = acc[a].ret
                                      /\ acc'[a].phase = acc[a].phase
     /\ mlog' # mlog =>
          /\ mlog'.threw <=>
                (mlog'.invoked /\ Select(memo.selector, mlog'.arg) = Thrown)
          /\ \A i \in DOMAIN mlog'.ret.val : mlog'.ret.val[i] # Thrown
          /\ mlog'.threw => state' = state /\ listeners' = listeners]_vars
\* A call site that returned a value throws on its next evaluation.
C24_Witness ==
  /\ client = "sites"
  /\ lastOp.op = "render" /\ lastOp.threw /\ top.arg = "deep"
  /\ acc[lastOp.site].phase = "subscribed"
  /\ acc[lastOp.site].ret.t = "undef"
  /\ Len(listeners) = NAcc

\* C25: a listener whose unsubscribe function has returned is not invoked
\* again until it is subscribed again: it is in no listener Set, no running
\* forEach loop has it ahead, and no invocation reaches it, also when the
\* unsubscribe came from a listener body while the loop had not yet
\* visited it.
C25_UnsubscribeImmediate ==
  /\ \A i \in 1..Len(calls) : ~calls[i].stale
  /\ \A l \in cancelled : l \notin SetOf(listeners)
  /\ \A j \in 1..Len(stack) :
       stack[j].kind = "fan" =>
         /\ stack[j].idx <= Len(listeners)
         /\ \A p \in (stack[j].idx + 1)..Len(listeners) :
               listeners[p] \notin cancelled
C25_Witness ==
  /\ Returned /\ top.accepted /\ top.reent
  /\ lastOp.op = "unsubscribe" /\ lastOp.nested /\ lastOp.lsChanged
  /\ calls # << >>
  /\ \E l \in top.begin \cap cancelled : VisitsOf(l) = {}

\* A call of setState from a listener body whose candidate is not the
\* current state has just been made.
NestedWrite ==
  /\ lastOp' # lastOp
  /\ lastOp'.op = "setState" /\ lastOp'.nested
  /\ ~lastOp'.threw /\ ~lastOp'.same
\* C27: a setState issued by a listener is applied at once and starts its
\* own forEach loop over the Set as it then is; that loop ends only when it
\* has reached the end of the Set and the loops below it wait meanwhile;
\* the write is never rejected or put off, and the state is at all times
\* the candidate of the accepted write that ran last.
C27_ImmediateReentry ==
  [][/\ state' = lastCand'
     /\ NestedWrite =>
          /\ lastOp'.stChanged
          /\ state' # state
          /\ Len(stack') = Len(stack) + 1
          /\ stack'[Len(stack')].kind = "fan"
          /\ stack'[Len(stack')].idx = 0
          /\ stack'[Len(stack')].cand = state'
     /\ (InFanOut /\ ~exc' /\ Len(stack') = Len(stack) - 1) =>
          TopFrame.idx = Len(listeners)
     /\ (Len(stack) > 1 /\ Len(stack') >= Len(stack)
           /\ listeners' = listeners) =>
          \A j \in 1..(Len(stack) - 1) : stack'[j] = stack[j]]_vars
C27_Witness ==
  /\ Returned /\ top.accepted /\ top.reent /\ ~top.threw
  /\ lastOp.op = "setState" /\ lastOp.nested /\ lastOp.stChanged
  /\ state # top.cand
  /\ \E i, j \in 1..Len(calls) :
       i < j /\ calls[i].d = 3 /\ calls[j].d = 1 /\ calls[j].arg = state

\* The unsubscribe closures of callback l the caller holds that are still
\* uncalled.
HeldFor(l) == CopiesIn(Closure(l), unsubs)
\* C28: the listener Set holds a callback at most once however often it was
\* subscribed, a repeated subscribe leaves the Set as it is, and an
\* accepted write invokes a callback subscribed several times once.
C28_KeyedByIdentity ==
  /\ Cardinality(SetOf(listeners)) = Len(listeners)
  /\ (lastOp.op = "subscribe" /\ ~lastOp.lsChanged) =>
       \E l \in Direct : l \in SetOf(listeners) /\ l \in top.begin
  /\ (Returned /\ top.accepted) =>
       \A l \in Direct : Cardinality(VisitsOf(l)) <= 1
  /\ (Returned /\ top.accepted) =>
       \A l \in Direct : l \in top.begin => Cardinality(VisitsOf(l)) = 1
C28_Witness ==
  /\ Returned /\ top.accepted
  /\ \E l \in Direct : /\ HeldFor(l) >= 2
                        /\ Cardinality(VisitsOf(l)) = 1
                        /\ Len(listeners) = 1

\* C29: every listener invocation is passed the object getState() returns
\* at that moment, in nested writes and in a loop that resumes after a
\* nested write as well.
C29_CommitPrecedesNotification ==
  [][Len(calls') = Len(calls) + 1 =>
       /\ calls'[Len(calls')].arg = state
       /\ calls'[Len(calls')].arg = state'
       /\ state = lastCand]_vars
C29_Witness ==
  /\ Returned /\ top.accepted /\ top.reent
  /\ \E i, j \in 1..Len(calls) :
       /\ i < j /\ calls[i].d = 3 /\ calls[j].d = 1
       /\ calls[j].arg # calls[j].cand
       /\ calls[j].arg = state

\* C30: an exception that leaves a listener body ends the forEach loop that
\* invoked it and the setState running it: the state stays the written
\* one, the listener Set is as it was, no further listener is invoked for
\* that write, and the exception reaches the caller of that setState.
C30_ThrowingListenerNoRollback ==
  [][(exc /\ InListener /\ stack' # stack) =>
       /\ state' = state /\ state' = lastCand'
       /\ listeners' = listeners
       /\ calls' = calls
       /\ Len(stack') = Len(stack) - 2
       /\ \A j \in 1..Len(stack') : stack'[j] = stack[j]
       /\ IF stack' = << >> THEN top'.threw /\ ~exc' ELSE exc']_vars
C30_Witness ==
  /\ Returned /\ top.accepted /\ top.threw /\ ~top.reent
  /\ lastOp.op = "setState" /\ ~lastOp.nested /\ lastOp.stChanged
  /\ state = top.cand
  /\ Len(listeners) = 2 /\ top.begin = SetOf(listeners)
  /\ Len(calls) = 1 /\ calls[1].l = listeners[1]

\* C31: a forEach loop follows the Set as it changes.  A loop that ends
\* without an exception has invoked every listener then in the Set, those
\* subscribed from a listener body after the write began included; and no
\* invocation reaches a listener that an unsubscribe function or destroy
\* removed before the loop came to it.
C31_LiveListenerSet ==
  /\ (Returned /\ top.accepted /\ ~top.threw) =>
       \A l \in SetOf(listeners) : VisitsOf(l) # {}
  /\ \A i \in 1..Len(calls) : ~calls[i].stale /\ ~calls[i].flushed
  /\ \A j \in 1..Len(stack) :
       stack[j].kind = "fan" =>
         \A p \in (stack[j].idx + 1)..Len(listeners) :
           listeners[p] \notin (cancelled \cup flushed)
C31_Witness ==
  /\ Returned /\ top.accepted /\ ~top.threw /\ top.reent
  /\ lastOp.op = "subscribe" /\ lastOp.nested /\ lastOp.lsChanged
  /\ \E l \in SetOf(listeners) \ top.begin : Cardinality(VisitsOf(l)) = 1

\* C32: setState stores the value it is passed exactly when that value is
\* not a function; a function is called with the current state and what it
\* returns is the candidate.  Hence a write that took its argument as the
\* value never leaves a function in the state, while the initial state, or
\* the value an updater returns, may be one.
C32_CallableIsUpdater ==
  (Returned /\ ~top.threw) =>
    /\ top.arg = "-" =>
         /\ top.cand \notin Fns
         /\ top.accepted => state = top.cand /\ state \notin Fns
    /\ top.arg = "same" => top.same /\ ~top.accepted /\ calls = << >>
    /\ top.arg = "const" => top.cand \in {1, FnSelf}
    /\ top.accepted => state = top.cand
    /\ (state \in Fns /\ top.accepted) => top.arg = "const" /\ state = FnSelf
C32_Witness ==
  /\ Returned /\ top.arg = "const" /\ top.accepted
  /\ state = FnSelf
  /\ calls # << >> /\ calls[1].arg = FnSelf

\* The selectors that read the same keys on every state.
FixedReads == MemoAllSelectors \ {"branch"}
\* C33 (as claimed): for a selector that reads the same keys on every
\* state, every call of its memoized wrapper that returns, returns what the
\* selector itself yields for the state passed.
C33_Claimed ==
  (mlog.n \in {1, 2} /\ ~mlog.threw /\ memo.selector \in FixedReads) =>
    mlog.ret.val = Apply(memo.selector, mlog.arg)

\* C34: a selector that reads no key on its first call leaves the tracked
\* keys empty; from then on every call returns the result of the first call
\* without invoking the selector, whatever state it is passed, and the
\* cache stays as the first call left it.
C34_EmptyTrackedFreezes ==
  /\ (mlog.n = 1 /\ ~mlog.threw /\ mlog.reads = << >>) =>
       memo.hasRun /\ memo.trackedKeys = {}
  /\ (mlog.n = 2 /\ mlog.before.trackedKeys = {}) =>
       /\ ~mlog.invoked /\ ~mlog.threw
       /\ mlog.ret = mlog.before.lastResult
       /\ memo = mlog.before
       /\ memo.lastResult.val = Apply(memo.selector, memo.lastState)
C34_Witness ==
  /\ mlog.n = 2
  /\ memo.selector = "whole"
  /\ memo.trackedKeys = {}
  /\ mlog.arg # memo.lastState
  /\ Content(mlog.arg) # Content(memo.lastState)
  /\ mlog.ret.val = << Select("none", memo.lastState) >>

\* C35: a call in which the selector throws throws to its caller and
\* leaves the cache as it was: unprimed with no tracked keys after a failed
\* first call, so that the next call tracks again, and holding the state
\* and result of the last successful computation after a failed
\* recomputation.
C35_MemoFailureKeepsCache ==
  /\ mlog.threw <=>
       (mlog.n \in {1, 2} /\ mlog.invoked /\ ApplyFails(memo.selector, mlog.arg))
  /\ mlog.threw =>
       /\ memo = mlog.before
       /\ mlog.ret = NoResult
       /\ mlog.n = 1 => memo = Unprimed(memo.selector)
       /\ mlog.n = 2 =>
            /\ memo.hasRun
            /\ memo.lastState # mlog.arg
            /\ ~ApplyFails(memo.selector, memo.lastState)
            /\ memo.lastResult.val = Apply(memo.selector, memo.lastState)
  /\ (mlog.n = 1 /\ ~mlog.threw) =>
       memo.trackedKeys = {mlog.reads[i] : i \in 1..Len(mlog.reads)}
  /\ ~memo.hasRun => memo = Unprimed(memo.selector)
C35_Witness ==
  /\ mlog.threw /\ mlog.n = 2
  /\ memo.hasRun /\ memo.trackedKeys = {"b"}
  /\ HasKey(memo.lastState, "b") /\ ~HasKey(mlog.arg, "b")

\* Call site a has subscribed, no notification is under way and no
\* re-evaluation of it is signalled.
Settled(a) == Idle /\ acc[a].phase = "subscribed" /\ ~acc[a].pending
\* C36 (as claimed): in both drafts a subscribed call site with no
\* re-evaluation signalled has returned its current selector applied to the
\* current state, also when a write was accepted between its first
\* evaluation and its subscription.
C36_Claimed ==
  \A a \in AccIds : Settled(a) => acc[a].ret = Select(acc[a].sel, state)

\* C37: two consecutive calls of one getSnapshot closure that read the
\* same state return the identical value, without a selector, with a
\* selector returning a member of the state and with one memoized instance
\* of an allocating selector; so the re-read that follows a read finds
\* nothing changed and asks for no further read.
C37_SnapshotStable ==
  (snap.n = 2 /\ snap.at = snap.prevAt) =>
    /\ snap.last = snap.prev
    /\ snap.sel = "memo" => snap.last = << memo.lastResult >>
    /\ snap.sel # "memo" => snap.last = << Select(snap.sel, snap.at) >>
C37_Witness ==
  /\ snap.sel = "memo" /\ snap.n = 2 /\ snap.at = snap.prevAt
  /\ top.op = "setState" /\ top.accepted
  /\ memo.selector = "ab" /\ mlog.n = 2 /\ ~mlog.invoked
  /\ snap.last = << memo.lastResult >> /\ memo.lastResult.id = 2

\* C38: after every call of the memoized selector that returns, the cached
\* last state and the state passed to the call hold the same value at every
\* tracked key, although a cache hit leaves the cached last state as it
\* was; so a later input differs from the cached last state at a tracked
\* key exactly when it differs there from the most recent input.
C38_CacheCoherent ==
  (mlog.n \in {1, 2} /\ ~mlog.threw) =>
    /\ memo.hasRun
    /\ \A k \in memo.trackedKeys :
         Select(k, memo.lastState) = Select(k, mlog.arg)
    /\ ~mlog.invoked => memo.lastState = mlog.before.lastState
    /\ mlog.invoked => memo.lastState = mlog.arg
    /\ \A o \in Objs \cup {FreshCopy} :
         HasChanged(memo.trackedKeys, memo.lastState, o)
           <=> HasChanged(memo.trackedKeys, mlog.arg, o)
C38_Witness ==
  /\ mlog.n = 2 /\ ~mlog.threw /\ ~mlog.invoked
  /\ memo.trackedKeys = {"a", "b"}
  /\ memo.lastState # mlog.arg
  /\ \E o \in Objs : HasChanged(memo.trackedKeys, mlog.arg, o)
====
